---- MODULE Spec2Model ----
(***************************************************************************)
(* Model of analyze_imdb.py: the chunked streaming aggregation of the      *)
(* IMDb title table joined with the ratings table (analyse, lines 63-299). *)
(*                                                                         *)
(* Text cells are sequences of one-character strings, so that the          *)
(* na_values test, pd.to_numeric and str.split act on the characters.      *)
(* Float cells are records: NaN, or an exact fraction num/den.  Ratings    *)
(* are kept in tenths (8.0 is 80) and every sum is exact integer           *)
(* arithmetic; the rounding of float64 addition is not represented.        *)
(***************************************************************************)
EXTENDS Integers, Sequences, FiniteSets, TLC

\* ------------------------------------------------------------------ bounds

\* The most lines a title file of TitleFiles has.
MaxRows == 3
\* The largest chunksize: the 500_000 of line 100 is scaled, and varied from 1
\* to MaxChunk so that a file is read as one batch and as several.
MaxChunk == 2

\* ------------------------------------------------------- program constants

\* .head(20), line 224.
TopN == 20
\* movies_per_year_df["year"] >= 1900, line 155.
MinYear == 1900
\* movies["numVotes"] >= 50_000, line 130.
PopularVotes == 50000
\* (runtime_series >= 120), line 199.
LongRuntime == 120

\* ------------------------------------------------------------- float cells

NaN == [nan |-> TRUE]
Frac(n, d) == [nan |-> FALSE, num |-> n, den |-> d]
Num(n) == Frac(n, 1)
IsNaN(x) == x.nan

\* ------------------------------------------------------------ text parsing

Digits == <<"0", "1", "2", "3", "4", "5", "6", "7", "8", "9">>
IsDigit(c) == \E i \in 1..10 : Digits[i] = c
DigitVal(c) == (CHOOSE i \in 1..10 : Digits[i] = c) - 1

\* The sentinel of na_values="\\N" (lines 74, 90).
NA_TOKEN == <<"\\", "N">>
\* read_csv turns the sentinel, and the empty cell (a default NA value), into NA.
IsNACell(text) == text = NA_TOKEN \/ text = <<>>

RECURSIVE DigitsToInt(_)
DigitsToInt(s) ==
    IF s = <<>> THEN 0
    ELSE 10 * DigitsToInt(SubSeq(s, 1, Len(s) - 1)) + DigitVal(s[Len(s)])

AllDigits(s) == s # <<>> /\ \A i \in 1..Len(s) : IsDigit(s[i])

\* pd.to_numeric(column, errors="coerce") on one cell (lines 110-111): NA and
\* text that is no number become NaN.
to_numeric(text) ==
    IF IsNACell(text) THEN NaN
    ELSE IF AllDigits(text) THEN Num(DigitsToInt(text))
    ELSE IF Len(text) > 1 /\ text[1] = "-" /\ AllDigits(Tail(text))
         THEN Num(0 - DigitsToInt(Tail(text)))
    ELSE NaN

RECURSIVE Concat(_)
\* The string made of the characters of s.
Concat(s) == IF s = <<>> THEN "" ELSE s[1] \o Concat(Tail(s))

RECURSIVE str_split(_)
\* genres.str.split(",") on one cell (line 136): the tokens between commas,
\* empty tokens included.
str_split(s) ==
    IF \A i \in 1..Len(s) : s[i] # ","
    THEN <<Concat(s)>>
    ELSE LET k == CHOOSE i \in 1..Len(s) :
                      s[i] = "," /\ \A j \in 1..(i - 1) : s[j] # ","
         IN <<Concat(SubSeq(s, 1, k - 1))>> \o str_split(SubSeq(s, k + 1, Len(s)))

\* --------------------------------------------------------------- sequences

\* The rows of s that Keep holds of, in order (a boolean mask on a frame).
SelectRows(s, Keep(_)) ==
    LET F[i \in 0..Len(s)] ==
            IF i = 0 THEN <<>>
            ELSE F[i - 1] \o (IF Keep(s[i]) THEN <<s[i]>> ELSE <<>>)
    IN F[Len(s)]

\* The sum of Val over the rows of s (Series.sum).
SumOver(s, Val(_)) ==
    LET F[i \in 0..Len(s)] == IF i = 0 THEN 0 ELSE F[i - 1] + Val(s[i])
    IN F[Len(s)]

\* The column Val of the frame s.
Column(s, Val(_)) == [i \in 1..Len(s) |-> Val(s[i])]

RECURSIVE Flatten(_)
\* pd.concat(frames, ignore_index=True): the rows of the frames, in order.
Flatten(frames) ==
    IF frames = <<>> THEN <<>> ELSE frames[1] \o Flatten(Tail(frames))

\* sort_values: Before(a, b) holds when a must come strictly before b.  Rows
\* that tie keep their order, which is what numpy's quicksort does on the
\* frames of at most 16 rows of TitleFiles; in the frames of TopFiles only
\* equal rows tie.
SortRows(s, Before(_, _)) ==
    LET Ins(x, t) ==
            LET k == IF \E i \in 1..Len(t) : Before(x, t[i])
                     THEN CHOOSE i \in 1..Len(t) :
                              Before(x, t[i]) /\ \A j \in 1..(i - 1) : ~Before(x, t[j])
                     ELSE Len(t) + 1
            IN SubSeq(t, 1, k - 1) \o <<x>> \o SubSeq(t, k, Len(t))
        F[i \in 0..Len(s)] == IF i = 0 THEN <<>> ELSE Ins(s[i], F[i - 1])
    IN F[Len(s)]

\* ------------------------------------------------------------------ inputs

\* One line of title.basics.tsv.gz, as text.
TitleLine(id, type, title, year, runtime, genres) ==
    [tconst |-> id, titleType |-> type, primaryTitle |-> title,
     startYear |-> year, runtimeMinutes |-> runtime, genres |-> genres]

Drama == <<"D", "r", "a", "m", "a">>
War == <<"W", "a", "r">>

\* The lines a title file is made of in this model: the two of the example of
\* the specification (the second with a runtime on the last bin edge), a movie
\* before MinYear with the sentinel among its genres, a movie without year and
\* runtime and with a trailing comma, a title that is no movie, and a movie
\* with a runtime that is no number and without genres.
TitleLines ==
    { TitleLine("t1", "movie", "A", <<"2", "0", "0", "0">>, <<"9", "0">>, Drama),
      TitleLine("t2", "movie", "B", <<"2", "0", "0", "0">>, <<"1", "8", "0">>,
                Drama \o <<",">> \o War),
      TitleLine("t3", "movie", "C", <<"1", "8", "9", "5">>, <<"2", "0", "0">>,
                NA_TOKEN \o <<",">> \o War),
      TitleLine("t1", "movie", "A", NA_TOKEN, NA_TOKEN, Drama \o <<",">>),
      TitleLine("t2", "short", "B", <<"2", "0", "0", "0">>, <<"3", "0">>, Drama),
      TitleLine("t3", "movie", "C", <<"1", "9", "0", "0">>, <<"9", "0", "m">>,
                NA_TOKEN) }

\* One line of title.ratings.tsv.gz after its dtype conversion (lines 71-77):
\* averageRating in tenths, numVotes an int32.
RatingLine(id, rating10, votes) ==
    [tconst |-> id, averageRating |-> rating10, numVotes |-> votes]

\* The ratings tables of this model: the example of the specification, three
\* tables whose vote counts lie at and around the edges of the vote bands, and
\* a table with zero votes and an identifier that occurs twice (set_index
\* accepts it).
RatingTables ==
    { << RatingLine("t1", 80, 100), RatingLine("t2", 60, 50) >>,
      << RatingLine("t1", 80, 50000), RatingLine("t2", 60, 99999),
         RatingLine("t3", 70, 5000000) >>,
      << RatingLine("t1", 75, 100000), RatingLine("t2", 60, 499999),
         RatingLine("t3", 90, 1999999) >>,
      << RatingLine("t1", 85, 500000), RatingLine("t2", 65, 4999999),
         RatingLine("t3", 70, 49999) >>,
      << RatingLine("t1", 80, 0), RatingLine("t3", 70, 200000),
         RatingLine("t2", 60, 0), RatingLine("t3", 90, 100) >> }

RECURSIVE SeqsOfLen(_, _)
SeqsOfLen(S, n) ==
    IF n = 0 THEN {<<>>}
    ELSE {<<x>> \o s : x \in S, s \in SeqsOfLen(S, n - 1)}

\* The title files of this model: up to MaxRows lines, the file without any
\* line included.
TitleFiles == UNION {SeqsOfLen(TitleLines, n) : n \in 0..MaxRows}

\* A catalogue of more than TopN rated titles, for the top-by-votes table: its
\* identifiers, a ratings table whose vote counts are all different and not in
\* order, and title files that hold every title once and one title twice.
TopIds ==
    <<"m01", "m02", "m03", "m04", "m05", "m06", "m07", "m08", "m09", "m10", "m11",
      "m12", "m13", "m14", "m15", "m16", "m17", "m18", "m19", "m20", "m21">>
TopRatings ==
    [i \in 1..Len(TopIds) |-> RatingLine(TopIds[i], 50 + i, ((i * 37) % 23) * 1000)]
TopLine(i) ==
    TitleLine(TopIds[i], "movie", "T", <<"2", "0", "0", "0">>, <<"9", "0">>, Drama)
TopFiles ==
    {[k \in 1..Len(TopIds) |-> TopLine(k)] \o <<TopLine(i)>> : i \in 1..Len(TopIds)}

\* ------------------------------------------------------------------- state

VARIABLES
    pc,                 \* "stream", "done" or "failed"
    file,               \* the lines of title.basics.tsv.gz
    chunksize,
    ratings_df,
    processed_rows,
    movies_per_year,
    year_weighted_sums,
    genre_stats,
    runtime_minutes,
    top_titles_frames,
    scatter_frames,
    produced,           \* the names of the tables finalization has computed
    movies_per_year_df,
    yearly_ratings_df,
    runtime_bins_df,
    genre_df,
    top_titles_df,
    popularity_df,
    summaries

vars == <<pc, file, chunksize, ratings_df, processed_rows, movies_per_year,
          year_weighted_sums, genre_stats, runtime_minutes, top_titles_frames,
          scatter_frames, produced, movies_per_year_df, yearly_ratings_df,
          runtime_bins_df, genre_df, top_titles_df, popularity_df, summaries>>

outputs == <<produced, movies_per_year_df, yearly_ratings_df, runtime_bins_df,
             genre_df, top_titles_df, popularity_df, summaries>>

\* ------------------------------------------------------ one chunk's frames

\* chunk[chunk["titleType"] == "movie"] (line 107).
MovieRows(chunk) == SelectRows(chunk, LAMBDA r : r.titleType = "movie")

RECURSIVE JoinRow(_, _)
\* The rows one title line gets from the ratings table: one per rating line
\* with its identifier, in the table's order.
JoinRow(r, ratings) ==
    IF ratings = <<>> THEN <<>>
    ELSE (IF ratings[1].tconst = r.tconst
          THEN << [tconst |-> r.tconst, primaryTitle |-> r.primaryTitle,
                   startYear |-> to_numeric(r.startYear),
                   runtimeMinutes |-> to_numeric(r.runtimeMinutes),
                   genres |-> r.genres,
                   averageRating |-> ratings[1].averageRating,
                   numVotes |-> ratings[1].numVotes] >>
          ELSE <<>>) \o JoinRow(r, Tail(ratings))

RECURSIVE JoinRatings(_, _)
\* movies.join(ratings_df, how="inner", on="tconst") followed by the two
\* pd.to_numeric coercions (lines 108-111).
JoinRatings(rows, ratings) ==
    IF rows = <<>> THEN <<>>
    ELSE JoinRow(rows[1], ratings) \o JoinRatings(Tail(rows), ratings)

Movies(chunk, ratings) == JoinRatings(MovieRows(chunk), ratings)

\* (group["averageRating"] * votes).sum() over rows (lines 121, 140).
WeightedSum(rows) == SumOver(rows, LAMBDA r : r.averageRating * r.numVotes)
\* votes.sum() over rows (lines 122, 141).
VoteSum(rows) == SumOver(rows, LAMBDA r : r.numVotes)

\* -------------------------------------------------------- the accumulators

RECURSIVE SortedInts(_)
\* sorted(...) of a set of integers.
SortedInts(S) ==
    IF S = {} THEN <<>>
    ELSE LET m == CHOOSE x \in S : \A y \in S : x <= y
         IN <<m>> \o SortedInts(S \ {m})

KnownYear(r) == ~IsNaN(r.startYear)
\* startYear.astype(int) on a known year (lines 113, 117).
YearOf(r) == r.startYear.num

\* dict.update in place of Counter.update: the count replaces the tally.
CounterAddReplaces(tally, count) == count

\* Counter.update on one key (line 114): the count is added to the tally.
CounterAdd(tally, count) == tally + count

\* movies_per_year.update(year_counts.to_dict()) (lines 113-114): every row
\* with a known year adds one to the tally of its year.
CounterUpdate(counter, movies) ==
    LET rows == SelectRows(movies, KnownYear)
        years == {YearOf(rows[i]) : i \in 1..Len(rows)}
    IN [y \in DOMAIN counter \cup years |->
            CounterAdd(IF y \in DOMAIN counter THEN counter[y] ELSE 0,
                       Len(SelectRows(rows, LAMBDA r : YearOf(r) = y)))]

\* "=" in place of "+=": the group replaces what was accumulated.
AddGroupAssigns(payload, group) ==
    [weighted_sum |-> WeightedSum(group), votes |-> VoteSum(group)]

\* The body of the loop over grouped_years (lines 120-122).
AddGroup(payload, group) ==
    [weighted_sum |-> payload.weighted_sum + WeightedSum(group),
     votes |-> payload.votes + VoteSum(group)]

\* The loop over grouped_years (lines 116-122).
YearSumsUpdate(sums, movies) ==
    LET valid_years == SelectRows(movies, KnownYear)
        years == {YearOf(valid_years[i]) : i \in 1..Len(valid_years)}
    IN [y \in DOMAIN sums \cup years |->
            LET old == IF y \in DOMAIN sums THEN sums[y]
                       ELSE [weighted_sum |-> 0, votes |-> 0]
                group == SelectRows(valid_years, LAMBDA r : YearOf(r) = y)
            IN IF y \in years THEN AddGroup(old, group) ELSE old]

RECURSIVE Explode(_)
\* genre_chunk.assign(genre=...str.split(",")).explode("genre") (line 136):
\* one row per token of each row's genres cell.
Explode(rows) ==
    IF rows = <<>> THEN <<>>
    ELSE LET tokens == str_split(rows[1].genres)
         IN [i \in 1..Len(tokens) |->
                [genre |-> tokens[i], averageRating |-> rows[1].averageRating,
                 numVotes |-> rows[1].numVotes]]
            \o Explode(Tail(rows))

\* The genre tokens of this model in the order groupby iterates them (sorted).
Lexicographic == <<"", "Drama", "War">>

\* genre_stats is a dict: its entries in insertion order.
GenreKeys(stats) == {stats[i].genre : i \in 1..Len(stats)}
GenreEntry(stats, g) == stats[CHOOSE i \in 1..Len(stats) : stats[i].genre = g]

\* valid_years in place of movies: rows without a year lose their genres.
GenreChunkOfValidYears(movies) ==
    SelectRows(movies, LAMBDA r : ~IsNACell(r.genres) /\ KnownYear(r))

\* genre_chunk (line 134): the rows whose genres cell is not NA.
GenreChunk(movies) == SelectRows(movies, LAMBDA r : ~IsNACell(r.genres))

\* The genre branch of the loop (lines 134-142).
GenreStatsUpdate(stats, movies) ==
    LET genre_chunk == GenreChunk(movies)
        exploded == SelectRows(Explode(genre_chunk),
                               LAMBDA r : r.genre # Concat(NA_TOKEN))
        Add(st, g) ==
            LET group == SelectRows(exploded, LAMBDA r : r.genre = g)
                Bump(e) == [genre |-> g,
                            weighted_sum |-> e.weighted_sum + WeightedSum(group),
                            votes |-> e.votes + VoteSum(group),
                            count |-> e.count + Len(group)]
            IN IF group = <<>> THEN st
               ELSE IF g \in GenreKeys(st)
               THEN [i \in 1..Len(st) |-> IF st[i].genre = g THEN Bump(st[i]) ELSE st[i]]
               ELSE Append(st, Bump([weighted_sum |-> 0, votes |-> 0, count |-> 0]))
        F[k \in 0..Len(Lexicographic)] ==
            IF k = 0 THEN stats ELSE Add(F[k - 1], Lexicographic[k])
    IN F[Len(Lexicographic)]

\* ------------------------------------------------------------ the stream

\* The state at line 104: nothing read, every accumulator empty.
Empty ==
    /\ pc = "stream"
    /\ processed_rows = 0
    /\ movies_per_year = <<>>
    /\ year_weighted_sums = <<>>
    /\ genre_stats = <<>>
    /\ runtime_minutes = <<>>
    /\ top_titles_frames = <<>>
    /\ scatter_frames = <<>>
    /\ produced = {}
    /\ movies_per_year_df = <<>>
    /\ yearly_ratings_df = <<>>
    /\ runtime_bins_df = <<>>
    /\ genre_df = <<>>
    /\ top_titles_df = <<>>
    /\ popularity_df = <<>>
    /\ summaries = <<>>

Init ==
    /\ file \in TitleFiles
    /\ chunksize \in 1..MaxChunk
    /\ ratings_df \in RatingTables
    /\ Empty

\* The lines of the file read so far.
consumed == SubSeq(file, 1, processed_rows)

\* The next chunk of chunk_iter (lines 87-101, 105): the next chunksize lines,
\* or the lines that are left.
NextChunk ==
    SubSeq(file, processed_rows + 1,
           IF processed_rows + chunksize < Len(file)
           THEN processed_rows + chunksize ELSE Len(file))

\* One pass of the loop over chunk_iter (lines 105-146).  A file with no line
\* yields one empty chunk, and nothing after it.
ProcessChunk ==
    /\ pc = "stream"
    /\ processed_rows < Len(file) \/ top_titles_frames = <<>>
    /\ LET chunk == NextChunk
           movies == Movies(chunk, ratings_df)
           runtimes == SelectRows(movies, LAMBDA r : ~IsNaN(r.runtimeMinutes))
           popular_subset == SelectRows(movies, LAMBDA r : r.numVotes >= PopularVotes)
       IN /\ processed_rows' = processed_rows + Len(chunk)
          /\ movies_per_year' = CounterUpdate(movies_per_year, movies)
          /\ year_weighted_sums' = YearSumsUpdate(year_weighted_sums, movies)
          /\ runtime_minutes' =
                 runtime_minutes \o Column(runtimes, LAMBDA r : r.runtimeMinutes.num)
          /\ top_titles_frames' =
                 Append(top_titles_frames,
                        Column(movies, LAMBDA r :
                            [tconst |-> r.tconst, primaryTitle |-> r.primaryTitle,
                             startYear |-> r.startYear,
                             averageRating |-> r.averageRating,
                             numVotes |-> r.numVotes]))
          /\ scatter_frames' =
                 IF popular_subset # <<>>
                 THEN Append(scatter_frames,
                             Column(popular_subset, LAMBDA r :
                                 [averageRating |-> r.averageRating,
                                  numVotes |-> r.numVotes]))
                 ELSE scatter_frames
          /\ genre_stats' = GenreStatsUpdate(genre_stats, movies)
    /\ UNCHANGED <<pc, file, chunksize, ratings_df, outputs>>

\* ------------------------------------------------------------ finalization

\* movies_per_year_df (lines 150-155): the tally sorted by year, without the
\* years before MinYear.
MoviesPerYearDf(counter) ==
    LET years == SortedInts(DOMAIN counter)
        table == [i \in 1..Len(years) |-> [year |-> years[i], count |-> counter[years[i]]]]
    IN SelectRows(table, LAMBDA row : row.year >= MinYear)

\* yearly_rating_records (lines 157-161).
YearlyRatingRecords(sums) ==
    LET years == SortedInts(DOMAIN sums)
    IN [i \in 1..Len(years) |->
           LET payload == sums[years[i]]
           IN [year |-> years[i],
               weighted_average_rating |->
                   IF payload.votes # 0
                   THEN Frac(payload.weighted_sum, payload.votes) ELSE NaN,
               votes |-> payload.votes]]

\* The dropna left out: rows with an undefined average stay.
DropNaAverageKeepsAll(table) == table

\* .dropna(subset=["weighted_average_rating"]) (lines 164, 214).
DropNaAverage(table) ==
    SelectRows(table, LAMBDA row : ~IsNaN(row.weighted_average_rating))

\* yearly_ratings_df (lines 162-167).
YearlyRatingsDf(sums) ==
    SortRows(DropNaAverage(YearlyRatingRecords(sums)),
             LAMBDA a, b : a.year < b.year)

\* pd.DataFrame([]) has no column, and dropna(subset=...) of it raises
\* KeyError (lines 163-164, 213-214).
RaisesKeyError(records) == records = <<>>

\* runtime_edges (line 173) and the bin labels (lines 176-185).
RuntimeEdges == <<0, 60, 75, 90, 105, 120, 150, 180>>
RuntimeLabels ==
    <<"< 60 min", "60-74", "75-89", "90-104", "105-119", "120-149", "150-179", "180+">>

MaxOf(series) == CHOOSE x \in {series[i] : i \in 1..Len(series)} :
                     \A i \in 1..Len(series) : series[i] <= x

\* right=True (the default of pd.cut): the bins are (bins[i], bins[i+1]].
CutRightClosed(x, bins, open_ended) ==
    IF \E i \in 1..(Len(bins) - 1) : bins[i] < x /\ x <= bins[i + 1]
    THEN CHOOSE i \in 1..(Len(bins) - 1) : bins[i] < x /\ x <= bins[i + 1]
    ELSE IF open_ended /\ bins[Len(bins)] < x THEN Len(bins)
    ELSE 0

\* pd.cut(x, bins, right=False) for one value: the number of the bin
\* [bins[i], bins[i+1]) that holds x, and 0 (NaN) when none does.  With
\* open_ended the last edge of bins is followed by float("inf").
Cut(x, bins, open_ended) ==
    IF \E i \in 1..(Len(bins) - 1) : bins[i] <= x /\ x < bins[i + 1]
    THEN CHOOSE i \in 1..(Len(bins) - 1) : bins[i] <= x /\ x < bins[i + 1]
    ELSE IF open_ended /\ bins[Len(bins)] <= x THEN Len(bins)
    ELSE 0

\* runtime_bins_df (lines 170-196).
RuntimeBinsDf(series) ==
    IF series = <<>> THEN <<>>
    ELSE LET max_runtime == MaxOf(series)
             runtime_edges ==
                 IF max_runtime > RuntimeEdges[Len(RuntimeEdges)]
                 THEN Append(RuntimeEdges, max_runtime + 1) ELSE RuntimeEdges
             runtime_labels == SubSeq(RuntimeLabels, 1, Len(runtime_edges) - 1)
         IN [i \in 1..Len(runtime_labels) |->
                [runtime_bin |-> runtime_labels[i],
                 count |-> Len(SelectRows(series,
                               LAMBDA x : Cut(x, runtime_edges, FALSE) = i))]]

\* Series.quantile(qn/qd) with linear interpolation (line 198); NaN on an
\* empty series.
Quantile(series, qn, qd) ==
    IF series = <<>> THEN NaN
    ELSE LET sorted == SortRows(series, LAMBDA a, b : a < b)
             pos == (Len(sorted) - 1) * qn
             lo == pos \div qd
             rest == pos % qd
             hi == IF rest = 0 THEN lo ELSE lo + 1
         IN Frac(sorted[lo + 1] * qd + rest * (sorted[hi + 1] - sorted[lo + 1]), qd)

\* long_runtime_share (line 199).
LongRuntimeShare(series) ==
    IF Len(series) # 0
    THEN Frac(Len(SelectRows(series, LAMBDA x : x >= LongRuntime)), Len(series))
    ELSE NaN

\* genre_records (lines 200-211).
GenreRecords(stats) ==
    [i \in 1..Len(stats) |->
        [genre |-> stats[i].genre,
         title_count |-> stats[i].count,
         total_votes |-> stats[i].votes,
         weighted_average_rating |->
             IF stats[i].votes # 0
             THEN Frac(stats[i].weighted_sum, stats[i].votes) ELSE NaN]]

\* genre_df (lines 212-217).
GenreDf(stats) ==
    SortRows(DropNaAverage(GenreRecords(stats)),
             LAMBDA a, b : a.total_votes > b.total_votes)

\* The drop_duplicates left out.
DropDuplicatesKeepsAll(table) == table

\* .drop_duplicates("tconst") (line 223): the first row of each identifier.
DropDuplicates(table) ==
    LET F[i \in 0..Len(table)] ==
            IF i = 0 THEN <<>>
            ELSE IF \E j \in 1..(i - 1) : table[j].tconst = table[i].tconst
                 THEN F[i - 1] ELSE Append(F[i - 1], table[i])
    IN F[Len(table)]

\* .head(n) (line 224).
Head_n(table, n) == SubSeq(table, 1, IF Len(table) < n THEN Len(table) ELSE n)

\* top_titles_df (lines 219-225).
TopTitlesDf(frames) ==
    Head_n(DropDuplicates(SortRows(Flatten(frames),
                                   LAMBDA a, b : a.numVotes > b.numVotes)),
           TopN)

\* vote_bins without its last edge, float("inf") (lines 235-244), and
\* vote_labels (lines 245-253).
VoteBins == <<50000, 100000, 200000, 500000, 1000000, 2000000, 5000000>>
VoteLabels == <<"50k-100k", "100k-200k", "200k-500k", "500k-1M", "1M-2M", "2M-5M", "5M+">>

\* observed=True: only the bands that have a member get a row.
ObservedBands(groups) == SelectRows(groups, LAMBDA row : row.title_count > 0)

\* observed=False (line 264): every category of vote_band gets a row.
GroupedBands(groups) == groups

\* popularity_df (lines 233-271).
PopularityDf(scatter_df) ==
    IF scatter_df = <<>> THEN <<>>
    ELSE LET banded == SelectRows(scatter_df,
                                  LAMBDA r : Cut(r.numVotes, VoteBins, TRUE) # 0)
         IN GroupedBands([i \in 1..Len(VoteLabels) |->
                LET group == SelectRows(banded,
                                 LAMBDA r : Cut(r.numVotes, VoteBins, TRUE) = i)
                IN [vote_band |-> VoteLabels[i],
                    title_count |-> Len(group),
                    avg_rating |->
                        IF group = <<>> THEN NaN
                        ELSE Frac(SumOver(group, LAMBDA r : r.averageRating), Len(group)),
                    median_votes |->
                        Quantile(Column(group, LAMBDA r : r.numVotes), 1, 2)]])

\* weighted_average (lines 56-60).
weighted_average(ratings) ==
    LET total_weight == VoteSum(ratings)
    IN IF total_weight = 0 THEN NaN
       ELSE Frac(WeightedSum(ratings), total_weight)

\* summaries (lines 274-289).
Summaries(per_year_df, series, ratings) ==
    [total_rated_movies |-> SumOver(per_year_df, LAMBDA row : row.count),
     median_runtime |-> Quantile(series, 1, 2),
     overall_weighted_rating |-> weighted_average(ratings),
     runtime_p10 |-> Quantile(series, 1, 10),
     runtime_p25 |-> Quantile(series, 1, 4),
     runtime_p75 |-> Quantile(series, 3, 4),
     runtime_p90 |-> Quantile(series, 9, 10),
     share_over_120_min |-> LongRuntimeShare(series)]

AllTables == {"movies_per_year", "yearly_weighted_ratings", "runtime_distribution",
              "genre_weighted_ratings", "top_20_by_votes", "popularity_by_votes",
              "high_level_metrics"}

\* The code after the loop, up to the writing of the tables (lines 148-299).
\* A KeyError ends the run with the tables computed so far.
Finalize ==
    /\ pc = "stream"
    /\ processed_rows = Len(file)
    /\ top_titles_frames # <<>>
    /\ LET year_error == RaisesKeyError(YearlyRatingRecords(year_weighted_sums))
           genre_error == RaisesKeyError(GenreRecords(genre_stats))
           reached == IF year_error THEN {"movies_per_year"}
                      ELSE IF genre_error
                      THEN {"movies_per_year", "yearly_weighted_ratings",
                            "runtime_distribution"}
                      ELSE AllTables
           At(name, table) == IF name \in reached THEN table ELSE <<>>
       IN /\ produced' = reached
          /\ movies_per_year_df' = MoviesPerYearDf(movies_per_year)
          /\ yearly_ratings_df' =
                 At("yearly_weighted_ratings", YearlyRatingsDf(year_weighted_sums))
          /\ runtime_bins_df' = At("runtime_distribution", RuntimeBinsDf(runtime_minutes))
          /\ genre_df' = At("genre_weighted_ratings", GenreDf(genre_stats))
          /\ top_titles_df' = At("top_20_by_votes", TopTitlesDf(top_titles_frames))
          /\ popularity_df' =
                 At("popularity_by_votes", PopularityDf(Flatten(scatter_frames)))
          /\ summaries' =
                 At("high_level_metrics",
                    Summaries(MoviesPerYearDf(movies_per_year), runtime_minutes,
                              ratings_df))
          /\ pc' = IF reached = AllTables THEN "done" ELSE "failed"
    /\ UNCHANGED <<file, chunksize, ratings_df, processed_rows, movies_per_year,
                   year_weighted_sums, genre_stats, runtime_minutes,
                   top_titles_frames, scatter_frames>>

Next ==
    \/ ProcessChunk
    \/ Finalize

Spec == Init /\ [][Next]_vars

\* The same program on the catalogue of more than TopN rated titles.
InitTop ==
    /\ file \in TopFiles
    /\ chunksize \in 1..MaxChunk
    /\ ratings_df = TopRatings
    /\ Empty

SpecTop == InitTop /\ [][Next]_vars

\* ================================================================== claims

\* The joined rows of every line read so far, whatever the chunksize.
AllMovies == Movies(consumed, ratings_df)

RowsOfYear(y) == SelectRows(AllMovies, LAMBDA r : KnownYear(r) /\ YearOf(r) = y)
YearsSeen == {YearOf(AllMovies[i]) : i \in {k \in 1..Len(AllMovies) : KnownYear(AllMovies[k])}}

\* The genre tags of a joined row: the tokens of its genres cell but the sentinel.
TagsOf(r) ==
    IF IsNACell(r.genres) THEN {}
    ELSE LET tokens == str_split(r.genres)
         IN {tokens[i] : i \in 1..Len(tokens)} \ {Concat(NA_TOKEN)}
RowsOfGenre(g) == SelectRows(AllMovies, LAMBDA r : g \in TagsOf(r))
GenresSeen == UNION {TagsOf(AllMovies[i]) : i \in 1..Len(AllMovies)}

\* (sum of rating*votes) / (sum of votes) over rows.
DirectAverage(rows) ==
    Frac(SumOver(rows, LAMBDA r : r.averageRating * r.numVotes),
         SumOver(rows, LAMBDA r : r.numVotes))

TopCandidates == Flatten(top_titles_frames)
ScatterDf == Flatten(scatter_frames)

\* Band i of the popularity table: [VoteBins[i], VoteBins[i+1]), the last one
\* open-ended.
InBand(v, i) ==
    /\ VoteBins[i] <= v
    /\ i < Len(VoteBins) => v < VoteBins[i + 1]

GenreCount(g) ==
    IF g \in GenreKeys(genre_stats) THEN GenreEntry(genre_stats, g).count ELSE 0

C3_TopTitlesDedupSortedBounded ==
    "top_20_by_votes" \in produced =>
        /\ \A i, j \in 1..Len(top_titles_df) :
               i < j => /\ top_titles_df[i].tconst # top_titles_df[j].tconst
                        /\ top_titles_df[i].numVotes >= top_titles_df[j].numVotes
        /\ Len(top_titles_df) <= TopN

\* The candidates repeat an identifier and hold more than TopN identifiers.
C3_Witness ==
    /\ pc = "done"
    /\ \E i, j \in 1..Len(TopCandidates) :
           i < j /\ TopCandidates[i].tconst = TopCandidates[j].tconst
    /\ Cardinality({TopCandidates[i].tconst : i \in 1..Len(TopCandidates)}) > TopN
    /\ Len(top_titles_df) = TopN

\* C4: the counts of the runtime bins sum to the number of runtime samples.
C4_BinCountsSumToSamples ==
    ("runtime_distribution" \in produced /\ runtime_minutes # <<>>) =>
        SumOver(runtime_bins_df, LAMBDA row : row.count) = Len(runtime_minutes)

\* C5: the popularity collection holds exactly the joined rows with at least
\* PopularVotes votes, each of them lies in exactly one band, each band counts
\* its rows, and the counts sum to the size of the collection.
C5_BandsPartitionPopularRows ==
    "popularity_by_votes" \in produced =>
        /\ ScatterDf =
               Column(SelectRows(AllMovies, LAMBDA r : r.numVotes >= PopularVotes),
                      LAMBDA r : [averageRating |-> r.averageRating,
                                  numVotes |-> r.numVotes])
        /\ \A k \in 1..Len(ScatterDf) :
               Cardinality({i \in 1..Len(VoteBins) : InBand(ScatterDf[k].numVotes, i)}) = 1
        /\ \A i \in 1..Len(popularity_df) :
               \E b \in 1..Len(VoteBins) :
                   /\ popularity_df[i].vote_band = VoteLabels[b]
                   /\ popularity_df[i].title_count =
                          Len(SelectRows(ScatterDf, LAMBDA r : InBand(r.numVotes, b)))
        /\ SumOver(popularity_df, LAMBDA row : row.title_count) = Len(ScatterDf)

\* A title with exactly 50,000 votes and one with exactly 5,000,000.
C5_Witness ==
    /\ pc = "done"
    /\ \E k \in 1..Len(ScatterDf) : ScatterDf[k].numVotes = 50000
    /\ \E k \in 1..Len(ScatterDf) : ScatterDf[k].numVotes = 5000000
    /\ \E i \in 1..Len(popularity_df) :
           popularity_df[i].vote_band = "5M+" /\ popularity_df[i].title_count >= 1

\* C6 as stated: every band row of the popularity table has a title count of
\* at least 1.
C6_EmptyBandsOmitted ==
    "popularity_by_votes" \in produced =>
        \A i \in 1..Len(popularity_df) : popularity_df[i].title_count >= 1

\* C6 amended: the popularity table is empty exactly when no joined row has
\* PopularVotes votes; otherwise it has one row for each of the seven bands, in
\* the order of the bands, and a band without member is kept with title count
\* 0 and undefined mean rating and median votes.
C6_EveryBandHasARow ==
    "popularity_by_votes" \in produced =>
        /\ popularity_df = <<>> <=> ScatterDf = <<>>
        /\ popularity_df # <<>> =>
               /\ Len(popularity_df) = Len(VoteLabels)
               /\ \A i \in 1..Len(popularity_df) :
                      /\ popularity_df[i].vote_band = VoteLabels[i]
                      /\ popularity_df[i].title_count =
                             Len(SelectRows(ScatterDf, LAMBDA r : InBand(r.numVotes, i)))
                      /\ popularity_df[i].title_count = 0 <=>
                             IsNaN(popularity_df[i].avg_rating)
                      /\ popularity_df[i].title_count = 0 <=>
                             IsNaN(popularity_df[i].median_votes)

\* A popularity table with a band that has a member and a band that has none.
C6_Witness ==
    /\ pc = "done"
    /\ \E i \in 1..Len(popularity_df) : popularity_df[i].title_count = 0
    /\ \E i \in 1..Len(popularity_df) : popularity_df[i].title_count >= 1

\* C7: finalization completes also when there is no runtime sample, no
\* popular title, no year or no genre, and then reports the runtime
\* statistics of an empty sample as undefined.
C7_FinalizationCompletes ==
    pc \in {"done", "failed"} =>
        /\ pc = "done"
        /\ runtime_minutes = <<>> =>
               /\ runtime_bins_df = <<>>
               /\ IsNaN(summaries.median_runtime)
               /\ IsNaN(summaries.runtime_p10)
               /\ IsNaN(summaries.runtime_p25)
               /\ IsNaN(summaries.runtime_p75)
               /\ IsNaN(summaries.runtime_p90)
               /\ IsNaN(summaries.share_over_120_min)
        /\ ScatterDf = <<>> => popularity_df = <<>>

\* C8: a year with a vote total of zero has no row in the yearly table, a year
\* with a positive total has exactly one, with weighted-sum / vote-total, and
\* the movies-per-year count of either is the number of its joined rows.
C8_ZeroVoteYearsExcluded ==
    "yearly_weighted_ratings" \in produced =>
        /\ \A i \in 1..Len(yearly_ratings_df) : yearly_ratings_df[i].year \in YearsSeen
        /\ \A y \in YearsSeen :
               LET rows == RowsOfYear(y)
                   at == {i \in 1..Len(yearly_ratings_df) : yearly_ratings_df[i].year = y}
               IN /\ VoteSum(rows) = 0 => at = {}
                  /\ VoteSum(rows) > 0 =>
                         /\ Cardinality(at) = 1
                         /\ \A i \in at :
                                yearly_ratings_df[i].weighted_average_rating
                                    = DirectAverage(rows)
                  /\ movies_per_year[y] = Len(rows)
                  /\ y >= MinYear =>
                         \E i \in 1..Len(movies_per_year_df) :
                             /\ movies_per_year_df[i].year = y
                             /\ movies_per_year_df[i].count = Len(rows)

\* A year whose movies have no vote next to a year with votes.
C8_Witness ==
    /\ "yearly_weighted_ratings" \in produced
    /\ \E y \in YearsSeen : VoteSum(RowsOfYear(y)) = 0 /\ y >= MinYear
    /\ \E y \in YearsSeen : VoteSum(RowsOfYear(y)) > 0

C10_NoEmptyOrSentinelGenreKey ==
    \A i \in 1..Len(genre_stats) :
        genre_stats[i].genre # "" /\ genre_stats[i].genre # Concat(NA_TOKEN)

====
